---- MODULE Spec2Model ----
(***************************************************************************)
(* TaiwanCalendar: the crawler (crawler.py), the CSV-to-JSON converter     *)
(* (converter.py) and the orchestrator (main.py) as a state machine.       *)
(*                                                                         *)
(* Text is a sequence of characters; a character is a one-element string.  *)
(* The three CJK characters of the date and year patterns are written      *)
(* "nian" (U+5E74), "yue" (U+6708) and "ri" (U+65E5); the CJK flag words   *)
(* are spelled with "shi" (U+662F), "fou" (U+5426), "fang" (U+653E),       *)
(* "jia" (U+5047), "shang" (U+4E0A) and "ban" (U+73ED).                    *)
(***************************************************************************)
EXTENDS Integers, Sequences, FiniteSets, TLC

VARIABLES
    pure,      \* the pure-function harness: [fn, arg, done, res]
    pc,        \* position of the single thread of control
    origin,    \* staging directory: file name -> [tbl, written]
    docs,      \* output directory: file name -> sequence of records
    net,       \* what the portal serves: [page, body]
    fp,        \* frame of fetch_page_content: [attempt, ret]
    cr,        \* frame of crawl: [items, i, success_count, ret]
    dl,        \* frame of download_file: [url, name, path, attempt, resp, ret]
    cv,        \* frame of convert_all / convert_csv_to_json
    stats,     \* TaiwanCalendarSystem.stats and the run's result
    log        \* history: the calls made and what they returned

vars == <<pure, pc, origin, docs, net, fp, cr, dl, cv, stats, log>>

(***************************************************************************)
(* Characters and strings                                                  *)
(***************************************************************************)
Digits == {"0", "1", "2", "3", "4", "5", "6", "7", "8", "9"}
Lower == {"a", "b", "c", "d", "e", "f", "g", "h", "i", "k", "l", "n", "o",
          "r", "s", "t", "u", "v", "w", "x", "y"}
Upper == {"A", "C", "D", "E", "F", "G", "H", "I", "K", "L", "O", "R", "S",
          "T", "U", "V", "W", "Y"}
Cjk == {"nian", "yue", "ri", "shi", "fou", "fang", "jia", "shang", "ban"}
Whitespace == {" ", "\t", "\n"}

\* str.isalnum() of one character
isalnum(c) == c \in Digits \cup Lower \cup Upper \cup Cjk

\* str.lower() of one character, then of a string
lowerChar(c) ==
    CASE c = "A" -> "a" [] c = "C" -> "c" [] c = "D" -> "d" [] c = "E" -> "e"
      [] c = "F" -> "f" [] c = "G" -> "g" [] c = "H" -> "h" [] c = "I" -> "i"
      [] c = "K" -> "k" [] c = "L" -> "l" [] c = "O" -> "o" [] c = "R" -> "r"
      [] c = "S" -> "s" [] c = "T" -> "t" [] c = "U" -> "u" [] c = "V" -> "v"
      [] c = "W" -> "w" [] c = "Y" -> "y" [] OTHER -> c

lower(s) == [i \in 1..Len(s) |-> lowerChar(s[i])]

RECURSIVE rstrip(_)
rstrip(s) ==
    IF s # <<>> /\ s[Len(s)] \in Whitespace
    THEN rstrip(SubSeq(s, 1, Len(s) - 1)) ELSE s

RECURSIVE lstrip(_)
lstrip(s) == IF s # <<>> /\ s[1] \in Whitespace THEN lstrip(Tail(s)) ELSE s

strip(s) == lstrip(rstrip(s))

startswith(s, p) == Len(s) >= Len(p) /\ SubSeq(s, 1, Len(p)) = p

endswith(s, p) ==
    Len(s) >= Len(p) /\ SubSeq(s, Len(s) - Len(p) + 1, Len(s)) = p

\* p in s (substring)
contains(s, p) ==
    \E i \in 1..(Len(s) - Len(p) + 1) : SubSeq(s, i, i + Len(p) - 1) = p

\* int(s) for a string of decimal digits
digitVal(c) ==
    CASE c = "0" -> 0 [] c = "1" -> 1 [] c = "2" -> 2 [] c = "3" -> 3
      [] c = "4" -> 4 [] c = "5" -> 5 [] c = "6" -> 6 [] c = "7" -> 7
      [] c = "8" -> 8 [] c = "9" -> 9

RECURSIVE toInt(_)
toInt(s) ==
    IF s = <<>> THEN 0
    ELSE 10 * toInt(SubSeq(s, 1, Len(s) - 1)) + digitVal(s[Len(s)])

\* str(n) for n >= 0
digitChar(d) ==
    CASE d = 0 -> "0" [] d = 1 -> "1" [] d = 2 -> "2" [] d = 3 -> "3"
      [] d = 4 -> "4" [] d = 5 -> "5" [] d = 6 -> "6" [] d = 7 -> "7"
      [] d = 8 -> "8" [] d = 9 -> "9"

RECURSIVE toStr(_)
toStr(n) ==
    IF n < 10 THEN <<digitChar(n)>>
    ELSE Append(toStr(n \div 10), digitChar(n % 10))

DotCsv == <<".", "c", "s", "v">>
DotJson == <<".", "j", "s", "o", "n">>

(***************************************************************************)
(* converter.py: file names                                                *)
(***************************************************************************)
\* re.search(r'(\d{3})nian', filename): the leftmost position of a match, 0
\* when there is none
yearMatch_AtStart(filename) ==
    IF /\ Len(filename) >= 4
       /\ filename[1] \in Digits /\ filename[2] \in Digits /\ filename[3] \in Digits
       /\ filename[4] = "nian"
    THEN 1 ELSE 0

\* re.search(r'(\d{3})nian', filename): where the leftmost match starts, 0 for
\* no match
yearMatch(filename) ==
    LET hits == {i \in 1..(Len(filename) - 3) :
                    /\ filename[i] \in Digits
                    /\ filename[i + 1] \in Digits
                    /\ filename[i + 2] \in Digits
                    /\ filename[i + 3] = "nian"}
    IN IF hits = {} THEN 0 ELSE CHOOSE i \in hits : \A j \in hits : i <= j

extract_roc_year_from_filename(filename) ==
    LET m == yearMatch(filename)
    IN IF m > 0 THEN toInt(SubSeq(filename, m, m + 2)) ELSE 0

RocOffset == 1911

convert_roc_to_western_year_ZeroIsYear(roc_year) ==
    IF roc_year < 0 THEN 0 ELSE roc_year + RocOffset

convert_roc_to_western_year(roc_year) ==
    IF roc_year <= 0 THEN 0 ELSE roc_year + RocOffset

\* os.path.splitext(filename)[0] of a name without directory: the name up to
\* its last dot, unless only dots precede that dot (then the whole name)
splitextRoot(filename) ==
    LET dots == {i \in 1..Len(filename) : filename[i] = "."}
        dotIndex == IF dots = {} THEN 0
                    ELSE CHOOSE i \in dots : \A j \in dots : j <= i
    IN IF dotIndex > 0 /\ \E k \in 1..(dotIndex - 1) : filename[k] # "."
       THEN SubSeq(filename, 1, dotIndex - 1)
       ELSE filename

generate_json_filename(filename) ==
    LET roc_year == extract_roc_year_from_filename(filename)
    IN IF roc_year > 0
       THEN toStr(convert_roc_to_western_year(roc_year)) \o DotJson
       ELSE splitextRoot(filename) \o DotJson

isCsvName_CaseSensitive(filename) == endswith(filename, DotCsv)

\* the filter of get_csv_files
isCsvName(filename) == endswith(lower(filename), DotCsv)

(***************************************************************************)
(* Directories are functions from file name to content                     *)
(***************************************************************************)
EmptyDir == [n \in {} |-> 0]

exists(dir, name) == name \in DOMAIN dir

writeFile(dir, name, content) ==
    [n \in DOMAIN dir \cup {name} |-> IF n = name THEN content ELSE dir[n]]

removeFile(dir, name) == [n \in DOMAIN dir \ {name} |-> dir[n]]

\* every sequence over A of length at most n
SeqsUpTo(A, n) == UNION {[1..k -> A] : k \in 0..n}

(***************************************************************************)
(* The pipeline at rest (the state of the specifications that exercise one *)
(* pure function)                                                          *)
(***************************************************************************)
PipelineIdle ==
    /\ pc = "idle"
    /\ origin = EmptyDir
    /\ docs = EmptyDir
    /\ net = <<>>
    /\ fp = <<>>
    /\ cr = <<>>
    /\ dl = <<>>
    /\ cv = <<>>
    /\ stats = <<>>
    /\ log = <<>>

pipeline == <<pc, origin, docs, net, fp, cr, dl, cv, stats, log>>

(***************************************************************************)
(* SpecName: generate_json_filename and convert_roc_to_western_year on     *)
(* every staged file name over NameAlphabet                                *)
(***************************************************************************)
MaxNameLen == 5
MaxRocYear == 1000
NameAlphabet == {"1", "4", "nian", "a", "."}
CsvSuffixes == {DotCsv, <<".", "C", "S", "V">>}

\* names that get_csv_files lists: a stem and a .csv suffix in either case
StagedNameInputs ==
    {stem \o ext : stem \in SeqsUpTo(NameAlphabet, MaxNameLen), ext \in CsvSuffixes}

RocYearInputs == (0 - 3)..MaxRocYear

InitName ==
    /\ PipelineIdle
    /\ pure \in
         {[fn |-> "generate_json_filename", arg |-> n, done |-> FALSE, res |-> <<>>] :
            n \in StagedNameInputs}
         \cup
         {[fn |-> "convert_roc_to_western_year", arg |-> y, done |-> FALSE, res |-> 0] :
            y \in RocYearInputs}

GenerateJsonFilename ==
    /\ pure.fn = "generate_json_filename"
    /\ ~pure.done
    /\ pure' = [pure EXCEPT !.done = TRUE, !.res = generate_json_filename(pure.arg)]
    /\ UNCHANGED pipeline

ConvertRocToWesternYear ==
    /\ pure.fn = "convert_roc_to_western_year"
    /\ ~pure.done
    /\ pure' = [pure EXCEPT !.done = TRUE,
                            !.res = convert_roc_to_western_year(pure.arg)]
    /\ UNCHANGED pipeline

NextName == GenerateJsonFilename \/ ConvertRocToWesternYear

SpecName == InitName /\ [][NextName]_vars

\* the name without its last four characters (the .csv suffix of a staged file)
StemOf(n) == SubSeq(n, 1, Len(n) - 4)

\* C3 as claimed: <year + 1911>.json when a year > 0 is extracted, the name
\* with its .csv extension replaced by .json when the year is 0, and the year
\* offset is 0 for a year <= 0 and year + 1911 otherwise.
C3_AsClaimed ==
    /\ (pure.fn = "generate_json_filename" /\ pure.done) =>
         LET y == extract_roc_year_from_filename(pure.arg)
         IN /\ y > 0 => pure.res = toStr(y + 1911) \o DotJson
            /\ y = 0 => pure.res = StemOf(pure.arg) \o DotJson
    /\ (pure.fn = "convert_roc_to_western_year" /\ pure.done) =>
         pure.res = IF pure.arg <= 0 THEN 0 ELSE pure.arg + 1911

\* only dots precede the suffix "csv" (".csv", "..csv", ".CSV"): for
\* os.path.splitext such a name has no extension
OnlyDotsStem(n) == \A k \in 1..(Len(n) - 4) : n[k] = "."

\* C3 amended: as claimed, except that a staged name made of dots and "csv"
\* alone keeps its whole name and gets ".json" appended (".csv" gives
\* ".csv.json").
C3_JsonFilename ==
    /\ (pure.fn = "generate_json_filename" /\ pure.done) =>
         LET y == extract_roc_year_from_filename(pure.arg)
         IN /\ y > 0 => pure.res = toStr(y + 1911) \o DotJson
            /\ (y = 0 /\ ~OnlyDotsStem(pure.arg)) =>
                 pure.res = StemOf(pure.arg) \o DotJson
            /\ (y = 0 /\ OnlyDotsStem(pure.arg)) =>
                 pure.res = pure.arg \o DotJson
    /\ (pure.fn = "convert_roc_to_western_year" /\ pure.done) =>
         pure.res = IF pure.arg <= 0 THEN 0 ELSE pure.arg + 1911

\* a name with the year 114 was converted to 2025.json, and one without a
\* year token to its stem
C3_Witness ==
    /\ pure.fn = "generate_json_filename"
    /\ pure.done
    /\ pure.arg = <<"1", "1", "4", "nian", "a", ".", "c", "s", "v">>
    /\ pure.res = <<"2", "0", "2", "5", ".", "j", "s", "o", "n">>

(***************************************************************************)
(* converter.py: convert_holiday_flag                                      *)
(***************************************************************************)
\* a cell of the table as pandas hands it over: text, an integer, a float
\* (whole or NaN, the missing value) or a boolean
\* str(flag_value)
pyStr(v) ==
    CASE v.type = "str" -> v.val
      [] v.type = "int" ->
           IF v.val < 0 THEN <<"-">> \o toStr(0 - v.val) ELSE toStr(v.val)
      [] v.type = "float" -> toStr(v.val) \o <<".", "0">>
      [] v.type = "nan" -> <<"n", "a", "n">>
      [] v.type = "bool" -> IF v.val THEN <<"T", "R", "U", "E">> ELSE <<"F", "A", "L", "S", "E">>

HolidayWords == {<<"t", "r", "u", "e">>, <<"shi">>, <<"fang", "jia">>, <<"h", "o", "l", "i", "d", "a", "y">>}
WorkWords == {<<"f", "a", "l", "s", "e">>, <<"fou">>, <<"shang", "ban">>, <<"w", "o", "r", "k">>}

convert_holiday_flag_NoLower(flag_value) ==
    LET flag_str == strip(pyStr(flag_value))
    IN IF flag_str = <<"2">> THEN TRUE
       ELSE IF flag_str = <<"0">> THEN FALSE
       ELSE IF flag_str \in HolidayWords THEN TRUE
       ELSE FALSE

convert_holiday_flag(flag_value) ==
    LET flag_str == strip(pyStr(flag_value))
    IN IF flag_str = <<"2">> THEN TRUE
       ELSE IF flag_str = <<"0">> THEN FALSE
       ELSE IF lower(flag_str) \in HolidayWords THEN TRUE
       ELSE IF lower(flag_str) \in WorkWords THEN FALSE
       ELSE FALSE

(***************************************************************************)
(* SpecFlag: convert_holiday_flag on padded, re-cased words and on the     *)
(* non-text cells                                                          *)
(***************************************************************************)
MaxPad == 1
MaxFlagInt == 3

upperChar(c) ==
    CASE c = "a" -> "A" [] c = "c" -> "C" [] c = "d" -> "D" [] c = "e" -> "E"
      [] c = "f" -> "F" [] c = "g" -> "G" [] c = "h" -> "H" [] c = "i" -> "I"
      [] c = "k" -> "K" [] c = "l" -> "L" [] c = "o" -> "O" [] c = "r" -> "R"
      [] c = "s" -> "S" [] c = "t" -> "T" [] c = "u" -> "U" [] c = "v" -> "V"
      [] c = "w" -> "W" [] c = "y" -> "Y" [] OTHER -> c

Recased(w) ==
    {w, [i \in 1..Len(w) |-> upperChar(w[i])],
        [i \in 1..Len(w) |-> IF i = 1 THEN upperChar(w[i]) ELSE w[i]]}

Padded(w) ==
    {l \o w \o r : l \in SeqsUpTo({" ", "\t"}, MaxPad),
                   r \in SeqsUpTo({" ", "\n"}, MaxPad)}

FlagWords ==
    HolidayWords \cup WorkWords \cup
    {<<"2">>, <<"0">>, <<"1">>, <<"2", "0">>, <<"0", "2">>, <<"2", ".", "0">>,
     <<"2", " ", "2">>, <<>>, <<"g", "a", "r", "b", "a", "g", "e">>, <<"t", "r", "u">>, <<"h", "o", "l", "i", "d", "a", "y", "s">>, <<"y", "e", "s">>}

FlagInputs ==
    {[type |-> "str", val |-> p] :
        p \in UNION {Padded(c) : c \in UNION {Recased(w) : w \in FlagWords}}}
    \cup {[type |-> "int", val |-> n] : n \in (0 - 1)..MaxFlagInt}
    \cup {[type |-> "float", val |-> n] : n \in 0..MaxFlagInt}
    \cup {[type |-> "nan", val |-> 0]}
    \cup {[type |-> "bool", val |-> b] : b \in BOOLEAN}

InitFlag ==
    /\ PipelineIdle
    /\ pure \in {[fn |-> "convert_holiday_flag", arg |-> v, done |-> FALSE,
                  res |-> FALSE] : v \in FlagInputs}

ConvertHolidayFlag ==
    /\ pure.fn = "convert_holiday_flag"
    /\ ~pure.done
    /\ pure' = [pure EXCEPT !.done = TRUE, !.res = convert_holiday_flag(pure.arg)]
    /\ UNCHANGED pipeline

NextFlag == ConvertHolidayFlag

SpecFlag == InitFlag /\ [][NextFlag]_vars

\* the text of a cell, trimmed; then with ASCII capitals folded
FlagToken(v) == strip(pyStr(v))
FlagFolded(v) == [i \in 1..Len(FlagToken(v)) |-> lowerChar(FlagToken(v)[i])]

\* C4: the result is a boolean for every cell; it is true exactly for the
\* trimmed token "2" and, in any letter case, for true / shi / fang-jia /
\* holiday; "0", false / fou / shang-ban / work and everything else (garbage,
\* empty, missing) give false; the conversion is defined on every input.
C4_HolidayFlag ==
    /\ pure.fn = "convert_holiday_flag" =>
         (~pure.done => ENABLED ConvertHolidayFlag)
    /\ (pure.fn = "convert_holiday_flag" /\ pure.done) =>
         /\ pure.res \in BOOLEAN
         /\ pure.res =
              (\/ FlagToken(pure.arg) = <<"2">>
               \/ FlagFolded(pure.arg) \in
                    {<<"t", "r", "u", "e">>, <<"shi">>, <<"fang", "jia">>, <<"h", "o", "l", "i", "d", "a", "y">>})

\* " Holiday" was converted to true
C4_Witness ==
    /\ pure.fn = "convert_holiday_flag"
    /\ pure.done
    /\ pure.arg = [type |-> "str", val |-> <<" ">> \o <<"H", "o", "l", "i", "d", "a", "y">>]
    /\ pure.res = TRUE

(***************************************************************************)
(* converter.py: convert_date_format                                       *)
(*                                                                         *)
(* datetime.strptime as the code calls it: the format becomes a regular    *)
(* expression (%Y = \d\d\d\d, %m = 1[0-2]|0[1-9]|[1-9],                    *)
(* %d = 3[01]|[12]\d|0[1-9]|[1-9]| [1-9]) that is matched at the start of  *)
(* the text with the alternatives tried in that order; text left over      *)
(* after the match, a year 0 or a day the month does not have is a         *)
(* ValueError.                                                             *)
(***************************************************************************)
NoMatch == [ok |-> FALSE, end |-> 0, Y |-> 0, m |-> 0, d |-> 0]

isDigitAt(s, i) == i <= Len(s) /\ s[i] \in Digits

\* the alternatives of a directive that match at pos, in the order the regular
\* expression tries them: <<length, value>>
directiveAlts(dir, s, pos) ==
    LET c1 == IF pos <= Len(s) THEN s[pos] ELSE "eof"
        c2 == IF pos + 1 <= Len(s) THEN s[pos + 1] ELSE "eof"
        two == toInt(<<c1, c2>>)
        one == <<1, digitVal(c1)>>
    IN CASE dir = "%Y" ->
              IF \A k \in 0..3 : isDigitAt(s, pos + k)
              THEN <<<<4, toInt(SubSeq(s, pos, pos + 3))>>>> ELSE <<>>
         [] dir = "%m" ->
              (IF (c1 = "1" /\ c2 \in {"0", "1", "2"})
                  \/ (c1 = "0" /\ c2 \in Digits \ {"0"})
               THEN <<<<2, two>>>> ELSE <<>>)
              \o (IF c1 \in Digits \ {"0"} THEN <<one>> ELSE <<>>)
         [] dir = "%d" ->
              (IF (c1 = "3" /\ c2 \in {"0", "1"})
                  \/ (c1 \in {"1", "2"} /\ c2 \in Digits)
                  \/ (c1 = "0" /\ c2 \in Digits \ {"0"})
               THEN <<<<2, two>>>> ELSE <<>>)
              \o (IF c1 \in Digits \ {"0"} THEN <<one>> ELSE <<>>)
              \o (IF c1 = " " /\ c2 \in Digits \ {"0"}
                  THEN <<<<2, digitVal(c2)>>>> ELSE <<>>)

RECURSIVE reMatch(_, _, _, _)
RECURSIVE reAlts(_, _, _, _, _)

\* the first way, in the regular expression's order, to match fmt at pos
reMatch(s, pos, fmt, acc) ==
    IF fmt = <<>> THEN [acc EXCEPT !.ok = TRUE, !.end = pos]
    ELSE IF Head(fmt) \in {"%Y", "%m", "%d"}
         THEN reAlts(s, pos, fmt, acc, directiveAlts(Head(fmt), s, pos))
         ELSE IF pos <= Len(s) /\ s[pos] = Head(fmt)
              THEN reMatch(s, pos + 1, Tail(fmt), acc)
              ELSE NoMatch

reAlts(s, pos, fmt, acc, alts) ==
    IF alts = <<>> THEN NoMatch
    ELSE LET a == Head(alts)
             got == IF Head(fmt) = "%Y" THEN [acc EXCEPT !.Y = a[2]]
                    ELSE IF Head(fmt) = "%m" THEN [acc EXCEPT !.m = a[2]]
                    ELSE [acc EXCEPT !.d = a[2]]
             rest == reMatch(s, pos + a[1], Tail(fmt), got)
         IN IF rest.ok THEN rest ELSE reAlts(s, pos, fmt, acc, Tail(alts))

isLeap(y) == (y % 4 = 0 /\ y % 100 # 0) \/ y % 400 = 0

daysInMonth(y, m) ==
    IF m = 2 THEN (IF isLeap(y) THEN 29 ELSE 28)
    ELSE IF m \in {4, 6, 9, 11} THEN 30 ELSE 31

\* datetime.strptime(s, fmt): [ok, Y, m, d]; ~ok is the ValueError
strptime(s, fmt) ==
    LET found == reMatch(s, 1, fmt, NoMatch)
    IN IF /\ found.ok
          /\ found.end = Len(s) + 1
          /\ found.Y >= 1
          /\ found.d <= daysInMonth(found.Y, found.m)
       THEN found ELSE NoMatch

pad2(n) == IF n < 10 THEN <<"0">> \o toStr(n) ELSE toStr(n)

pad4(n) ==
    IF n < 10 THEN <<"0", "0", "0">> \o toStr(n)
    ELSE IF n < 100 THEN <<"0", "0">> \o toStr(n)
    ELSE IF n < 1000 THEN <<"0">> \o toStr(n) ELSE toStr(n)

\* date_obj.strftime('%Y-%m-%d')
strftimeIso(t) == pad4(t.Y) \o <<"-">> \o pad2(t.m) \o <<"-">> \o pad2(t.d)

date_formats_DayFirst ==
    << <<"%Y", "/", "%m", "/", "%d">>,
       <<"%Y", "-", "%m", "-", "%d">>,
       <<"%Y", "nian", "%m", "yue", "%d", "ri">>,
       <<"%d", "/", "%m", "/", "%Y">>,
       <<"%m", "/", "%d", "/", "%Y">> >>

date_formats ==
    << <<"%Y", "/", "%m", "/", "%d">>,
       <<"%Y", "-", "%m", "-", "%d">>,
       <<"%Y", "nian", "%m", "yue", "%d", "ri">>,
       <<"%m", "/", "%d", "/", "%Y">>,
       <<"%d", "/", "%m", "/", "%Y">> >>

RECURSIVE tryFormats(_, _, _)
\* the loop over date_formats, then pd.to_datetime, then the except branch;
\* generic is what pd.to_datetime makes of the text: a date, or ~ok when it
\* raises or gives NaT (whose strftime raises)
tryFormats(text, fmts, generic) ==
    IF fmts = <<>>
    THEN IF generic.ok THEN strftimeIso(generic) ELSE text
    ELSE LET date_obj == strptime(text, Head(fmts))
         IN IF date_obj.ok THEN strftimeIso(date_obj)
            ELSE tryFormats(text, Tail(fmts), generic)

convert_date_format(date_str, generic) ==
    tryFormats(strip(pyStr(date_str)), date_formats, generic)

(***************************************************************************)
(* SpecDate: convert_date_format on dates written in the five forms, with  *)
(* valid and invalid fields, on other text and on non-text cells. Years    *)
(* have four digits and are 0 or at least 1000.                            *)
(***************************************************************************)
MaxDatePad == 1

DateYears == {<<"2", "0", "2", "4">>, <<"2", "0", "2", "3">>, <<"0", "0", "0", "0">>, <<"2", "4">>}
DateNumerals == {<<"1">>, <<"0", "1">>, <<"2">>, <<"0", "2">>, <<"1", "2">>, <<"1", "3">>, <<"2", "9">>, <<"3", "0">>, <<"3", "1">>, <<"0">>, <<"3", "2">>,
                 <<" ", "1">>}

DateTexts ==
    {y \o <<"/">> \o a \o <<"/">> \o b : y \in DateYears, a \in DateNumerals, b \in DateNumerals}
    \cup
    {y \o <<"-">> \o a \o <<"-">> \o b : y \in DateYears, a \in DateNumerals, b \in DateNumerals}
    \cup
    {y \o <<"nian">> \o a \o <<"yue">> \o b \o <<"ri">> :
        y \in DateYears, a \in DateNumerals, b \in DateNumerals}
    \cup
    {a \o <<"/">> \o b \o <<"/">> \o y : y \in DateYears, a \in DateNumerals, b \in DateNumerals}
    \cup
    {<<>>, <<"g", "a", "r", "b", "a", "g", "e">>, <<"2", "0", "2", "4", "/", "1", "/", "1", "x">>, <<"2", "0", "2", "4", "/", "1">>, <<"2", "0", "2", "4", ".", "1", ".", "1">>, <<"2", "0", "2", "4", "0", "1", "0", "1">>}

GenericOutcomes ==
    {NoMatch, [ok |-> TRUE, end |-> 0, Y |-> 2024, m |-> 1, d |-> 1]}

DateInputs ==
    {[type |-> "str", val |-> l \o t \o r] :
        t \in DateTexts, l \in SeqsUpTo({" "}, MaxDatePad), r \in SeqsUpTo({" "}, MaxDatePad)}
    \cup {[type |-> "int", val |-> 20240101], [type |-> "nan", val |-> 0]}

InitDate ==
    /\ PipelineIdle
    /\ pure \in {[fn |-> "convert_date_format", arg |-> v, generic |-> g,
                  done |-> FALSE, res |-> <<>>] :
                    v \in DateInputs, g \in GenericOutcomes}

ConvertDateFormat ==
    /\ pure.fn = "convert_date_format"
    /\ ~pure.done
    /\ pure' = [pure EXCEPT !.done = TRUE,
                            !.res = convert_date_format(pure.arg, pure.generic)]
    /\ UNCHANGED pipeline

NextDate == ConvertDateFormat

SpecDate == InitDate /\ [][NextDate]_vars

\* the order the claim fixes: Y/M/D, Y-M-D, Y nian M yue D ri, M/D/Y, D/M/Y
ClaimedOrder ==
    << <<"%Y", "/", "%m", "/", "%d">>,
       <<"%Y", "-", "%m", "-", "%d">>,
       <<"%Y", "nian", "%m", "yue", "%d", "ri">>,
       <<"%m", "/", "%d", "/", "%Y">>,
       <<"%d", "/", "%m", "/", "%Y">> >>

DateText(v) == strip(pyStr(v))
Parses(v, k) == strptime(DateText(v), ClaimedOrder[k]).ok
Iso20240101 == <<"2", "0", "2", "4", "-", "0", "1", "-", "0", "1">>

\* C5: the result is the YYYY-MM-DD form of the first of the five patterns,
\* in the claimed order, that parses the trimmed input (so M/D/Y wins over
\* D/M/Y whenever it parses); the literals 2024/1/1, 2024-01-01,
\* 2024nian1yue1ri and 1/1/2024 give 2024-01-01; when no pattern parses and
\* the generic parser fails the result is the trimmed input; every input has a
\* result, which is text.
C5_DateOrder ==
    (pure.fn = "convert_date_format" /\ pure.done) =>
         LET t == DateText(pure.arg)
             hits == {k \in 1..5 : Parses(pure.arg, k)}
             first == CHOOSE k \in hits : \A j \in hits : k <= j
             p == strptime(t, ClaimedOrder[first])
         IN /\ pure.res \in Seq(Digits \cup Lower \cup Cjk \cup {"-", "/", ".", " "})
            /\ hits # {} =>
                 pure.res = pad4(p.Y) \o <<"-">> \o pad2(p.m) \o <<"-">> \o pad2(p.d)
            /\ (4 \in hits) =>
                 SubSeq(pure.res, 6, 7) = pad2(toInt(lstrip(SubSeq(t, 1,
                     (CHOOSE i \in 1..Len(t) : t[i] = "/"
                          /\ \A j \in 1..(i - 1) : t[j] # "/") - 1))))
            /\ (hits = {} /\ ~pure.generic.ok) => pure.res = t
            /\ t \in {<<"2", "0", "2", "4", "/", "1", "/", "1">>, <<"2", "0", "2", "4", "-", "0", "1", "-", "0", "1">>,
                      <<"2", "0", "2", "4", "nian", "1", "yue", "1", "ri">>,
                      <<"1", "/", "1", "/", "2", "0", "2", "4">>}
                 => pure.res = Iso20240101
            /\ t = <<"2", "/", "1", "/", "2", "0", "2", "4">> => pure.res = <<"2", "0", "2", "4", "-", "0", "2", "-", "0", "1">>
            /\ t = <<"1", "3", "/", "1", "/", "2", "0", "2", "4">> => pure.res = <<"2", "0", "2", "4", "-", "0", "1", "-", "1", "3">>

\* a slash date valid in both orders was read month-first
C5_Witness ==
    /\ pure.fn = "convert_date_format"
    /\ pure.done
    /\ pure.arg = [type |-> "str", val |-> <<" ">> \o <<"2", "/", "1", "/", "2", "0", "2", "4">>]
    /\ pure.res = <<"2", "0", "2", "4", "-", "0", "2", "-", "0", "1">>

(***************************************************************************)
(* crawler.py: parse_resource_items                                        *)
(*                                                                         *)
(* The page is the sequence of its li.resource-item elements. An element   *)
(* is [a, href, spans]: a says whether it holds an <a>, href is the first  *)
(* <a>'s href ([given, url, abs, name, bad]: given is FALSE for a missing  *)
(* or empty href, abs says the href starts with "http", name is the value  *)
(* of its name query parameter (<<>> when absent or blank), bad says that  *)
(* urlparse / urljoin raise ValueError on it), and spans are the <span>s   *)
(* in document order, each [text, inButton].                               *)
(***************************************************************************)
Google == <<"G", "o", "o", "g", "l", "e">>
CsvCaption == <<"C", "S", "V">>
CalendarPrefix == <<"c", "a", "l", "e", "n", "d", "a", "r", "_">>

\* span.get_text(strip=True)
get_text(span) == strip(span.text)

spanName_KeepsCsv(li) ==
    LET ok == {i \in 1..Len(li.spans) :
                  ~li.spans[i].inButton /\ get_text(li.spans[i]) # <<>>}
    IN IF ok = {} THEN <<>>
       ELSE get_text(li.spans[CHOOSE i \in ok : \A j \in ok : i <= j])

\* the loop over all_spans: the text of the first span outside a button whose
\* text is neither empty nor "CSV"; <<>> when there is none (filename = None)
spanName(li) ==
    LET ok == {i \in 1..Len(li.spans) :
                  /\ ~li.spans[i].inButton
                  /\ get_text(li.spans[i]) # <<>>
                  /\ get_text(li.spans[i]) # CsvCaption}
    IN IF ok = {} THEN <<>>
       ELSE get_text(li.spans[CHOOSE i \in ok : \A j \in ok : i <= j])

\* one iteration of the loop over li_elements: resource_items afterwards
parseItem(li, resource_items) ==
    IF ~(li.a /\ li.href.given) THEN resource_items
    ELSE LET fromSpan == spanName(li)
             mustParse == fromSpan = <<>>
             filename ==
                 IF fromSpan # <<>> THEN fromSpan
                 ELSE IF li.href.name # <<>> THEN li.href.name
                 ELSE CalendarPrefix \o toStr(Len(resource_items) + 1)
         IN IF mustParse /\ li.href.bad THEN resource_items
            ELSE IF contains(filename, Google) THEN resource_items
            ELSE IF ~li.href.abs /\ li.href.bad THEN resource_items
            ELSE Append(resource_items,
                        [link |-> [url |-> li.href.url, abs |-> TRUE],
                         filename |-> filename])

RECURSIVE parseLoop(_, _)
parseLoop(lis, resource_items) ==
    IF lis = <<>> THEN resource_items
    ELSE parseLoop(Tail(lis), parseItem(Head(lis), resource_items))

parse_resource_items(html_content) == parseLoop(html_content, <<>>)

(***************************************************************************)
(* SpecParse: parse_resource_items on pages made of up to MaxPrefix plain  *)
(* items followed by one item with any link and up to MaxSpans spans       *)
(***************************************************************************)
MaxPrefix == 2
MaxSpans == 1

Href(url, abs, name, bad) ==
    [given |-> TRUE, url |-> url, abs |-> abs, name |-> name, bad |-> bad]
NoHref == [given |-> FALSE, url |-> "u0", abs |-> FALSE, name |-> <<>>, bad |-> FALSE]

Span(text, inButton) == [text |-> text, inButton |-> inButton]

Y114 == <<"1", "1", "4", "nian">>
GoogleLabel == <<"1", "1", "4", "nian">> \o Google

SpanInputs ==
    {Span(CsvCaption, FALSE), Span(<<" ">> \o CsvCaption \o <<" ">>, FALSE),
     Span(<<" ">>, FALSE), Span(Y114, FALSE), Span(<<" ">> \o Y114, TRUE),
     Span(GoogleLabel, FALSE), Span(GoogleLabel, TRUE), Span(<<"g", "o", "o", "g", "l", "e">>, FALSE)}

HrefInputs ==
    {NoHref}
    \cup {Href("u1", abs, name, bad) :
            abs \in BOOLEAN, name \in {<<>>, <<"n", "1">>, GoogleLabel}, bad \in BOOLEAN}

LiInputs ==
    {[a |-> FALSE, href |-> NoHref, spans |-> sp] : sp \in SeqsUpTo(SpanInputs, MaxSpans)}
    \cup {[a |-> TRUE, href |-> h, spans |-> sp] :
            h \in HrefInputs, sp \in SeqsUpTo(SpanInputs, MaxSpans)}

PlainLis ==
    {[a |-> TRUE, href |-> Href("u2", TRUE, <<>>, FALSE), spans |-> <<Span(Y114, FALSE)>>],
     [a |-> TRUE, href |-> Href("u3", FALSE, <<>>, FALSE),
      spans |-> <<Span(CsvCaption, FALSE), Span(GoogleLabel, FALSE)>>],
     [a |-> TRUE, href |-> Href("u4", TRUE, <<>>, FALSE), spans |-> <<Span(CsvCaption, FALSE)>>],
     [a |-> FALSE, href |-> NoHref, spans |-> <<Span(Y114, FALSE)>>]}

PageInputs ==
    {pre \o <<li>> : pre \in SeqsUpTo(PlainLis, MaxPrefix), li \in LiInputs}

InitParse ==
    /\ PipelineIdle
    /\ pure \in {[fn |-> "parse_resource_items", arg |-> h, done |-> FALSE,
                  res |-> <<>>] : h \in PageInputs}

ParseResourceItems ==
    /\ pure.fn = "parse_resource_items"
    /\ ~pure.done
    /\ pure' = [pure EXCEPT !.done = TRUE, !.res = parse_resource_items(pure.arg)]
    /\ UNCHANGED pipeline

NextParse == ParseResourceItems

SpecParse == InitParse /\ [][NextParse]_vars

\* the labels of an item that count: outside a button, trimmed, not empty and
\* not the caption "CSV"
Labels(li) ==
    {i \in 1..Len(li.spans) :
        /\ ~li.spans[i].inButton
        /\ strip(li.spans[i].text) \notin {<<>>, <<"C", "S", "V">>}}

FirstLabel(li) ==
    strip(li.spans[CHOOSE i \in Labels(li) : \A j \in Labels(li) : i <= j].text)

\* the name the claim gives an item when n - 1 items were accepted before it
ClaimedName(li, n) ==
    IF Labels(li) # {} THEN FirstLabel(li)
    ELSE IF li.href.name # <<>> THEN li.href.name
    ELSE <<"c", "a", "l", "e", "n", "d", "a", "r", "_">> \o toStr(n)

HasLink(li) == li.a /\ li.href.given

\* the URL of the item cannot be parsed where the code has to parse it
LinkRaises(li) == li.href.bad /\ (Labels(li) = {} \/ ~li.href.abs)

\* items returned: with a link that parses and a name without "Google"
Returned(html) ==
    {j \in 1..Len(html) :
        /\ HasLink(html[j])
        /\ ~contains(ClaimedName(html[j], 1), <<"G", "o", "o", "g", "l", "e">>)
        /\ ~LinkRaises(html[j])}

\* C7: the returned list holds, in page order, the items that have a link
\* and whose name does not contain "Google" (an item whose URL cannot be
\* parsed is skipped); the m-th returned item is named by its first label
\* outside a button that is non-empty and not "CSV", else by the name query
\* parameter, else calendar_<m>; no returned name contains "Google" and none
\* is the caption "CSV".
C7_ResourceNames ==
    (pure.fn = "parse_resource_items" /\ pure.done) =>
        LET html == pure.arg
            kept == Returned(html)
            \* the page index of the m-th returned item
            at(m) == CHOOSE j \in kept : Cardinality({k \in kept : k <= j}) = m
        IN /\ Len(pure.res) = Cardinality(kept)
           /\ \A m \in 1..Len(pure.res) :
                 /\ pure.res[m].filename = ClaimedName(html[at(m)], m)
                 /\ pure.res[m].link.url = html[at(m)].href.url
                 /\ ~contains(pure.res[m].filename, <<"G", "o", "o", "g", "l", "e">>)
                 /\ pure.res[m].filename # <<"C", "S", "V">>
           /\ \A j \in 1..Len(html) :
                 (HasLink(html[j]) /\ Labels(html[j]) # {}
                    /\ contains(FirstLabel(html[j]), <<"G", "o", "o", "g", "l", "e">>)) => j \notin kept

\* after one accepted item and one Google item, an item whose only label is
\* "CSV" and whose link has no name parameter was named calendar_2
C7_Witness ==
    /\ pure.fn = "parse_resource_items"
    /\ pure.done
    /\ Len(pure.arg) = 3
    /\ pure.arg[2].spans = <<Span(CsvCaption, FALSE), Span(GoogleLabel, FALSE)>>
    /\ pure.arg[3].spans = <<Span(CsvCaption, FALSE)>>
    /\ pure.arg[3].href.name = <<>>
    /\ Len(pure.res) = 2
    /\ pure.res[2].filename = <<"c", "a", "l", "e", "n", "d", "a", "r", "_", "2">>

(***************************************************************************)
(* converter.py: tables, rows and convert_csv_to_json                      *)
(*                                                                         *)
(* A CSV body is one of the tables of the catalogue Tables: [cols, rows];  *)
(* a row is [date, generic, week, flag, description, raises]: four cells,  *)
(* what pd.to_datetime makes of the date, and whether building the record  *)
(* raises inside the row's try block. A staged file is [tbl, written]:     *)
(* the table it was downloaded from and the number of chunks on disk; the  *)
(* body arrives as one chunk for the header line and one per row.          *)
(***************************************************************************)
Text(t) == [type |-> "str", val |-> t]
IntCell(n) == [type |-> "int", val |-> n]
NaN == [type |-> "nan", val |-> 0]

Row(date, generic, week, flag, description, raises) ==
    [date |-> date, generic |-> generic, week |-> week, flag |-> flag,
     description |-> description, raises |-> raises]

RowNewYear == Row(Text(<<"2", "0", "2", "4", "/", "1", "/", "1">>), NoMatch, Text(<<" ">> \o <<"M", "o", "n">>), IntCell(2),
                  Text(<<"h", "o", "l", "i", "d", "a", "y">>), FALSE)
RowRaises == Row(Text(<<"2", "0", "2", "4", "/", "1", "/", "2">>), NoMatch, Text(<<"T", "u", "e">>), IntCell(0), NaN, TRUE)
RowBadDate == Row(Text(<<"g", "a", "r", "b", "a", "g", "e">>), NoMatch, NaN, IntCell(0), NaN, FALSE)
RowCompact == Row(IntCell(20240101), [ok |-> TRUE, end |-> 0, Y |-> 2024, m |-> 1, d |-> 1],
                  Text(<<"M", "o", "n">>), Text(<<"s", "h", "i">>), NaN, FALSE)

Tables ==
    << [cols |-> 4, rows |-> <<RowNewYear, RowRaises, RowBadDate>>],
       [cols |-> 3, rows |-> <<RowNewYear>>],
       [cols |-> 4, rows |-> <<>>],
       [cols |-> 4, rows |-> <<RowRaises, RowRaises>>],
       [cols |-> 5, rows |-> <<RowCompact>>],
       [cols |-> 0, rows |-> <<>>] >>

TableIds == DOMAIN Tables

\* chunks of the body of table t (0 for the empty body, table id 0)
NChunks(t) == IF t = 0 THEN 0 ELSE 1 + Len(Tables[t].rows)

FullFile(t) == [tbl |-> t, written |-> NChunks(t)]

\* read_csv_file: the DataFrame of a staged file; an unreadable or empty file
\* gives the empty DataFrame, a truncated one the rows that are on disk
read_csv_file(file) ==
    IF file.written = 0 THEN [cols |-> 0, rows |-> <<>>]
    ELSE [cols |-> Tables[file.tbl].cols,
          rows |-> SubSeq(Tables[file.tbl].rows, 1, file.written - 1)]

validate_csv_structure_ThreeColumns(df) ==
    ~(df.rows = <<>> \/ df.cols = 0) /\ ~(df.cols < 3)

validate_csv_structure(df) ==
    IF df.rows = <<>> \/ df.cols = 0 THEN FALSE
    ELSE IF df.cols < 4 THEN FALSE
    ELSE TRUE

notna(cell) == cell.type # "nan"

\* the record built from one row (lines 286-291)
rowRecord(row) ==
    [date |-> convert_date_format(row.date, row.generic),
     week |-> IF notna(row.week) THEN strip(pyStr(row.week)) ELSE <<>>,
     isHoliday |-> convert_holiday_flag(row.flag),
     description |-> IF notna(row.description) THEN strip(pyStr(row.description))
                     ELSE <<>>]

RECURSIVE convertRows_StopAtError(_, _)
convertRows_StopAtError(rows, json_data) ==
    IF rows = <<>> \/ Head(rows).raises THEN json_data
    ELSE convertRows_StopAtError(Tail(rows), Append(json_data, rowRecord(Head(rows))))

RECURSIVE convertRows(_, _)
\* the loop over df.iterrows(): a row that raises is skipped
convertRows(rows, json_data) ==
    IF rows = <<>> THEN json_data
    ELSE IF Head(rows).raises THEN convertRows(Tail(rows), json_data)
    ELSE convertRows(Tail(rows), Append(json_data, rowRecord(Head(rows))))

\* convert_csv_to_json(file_path) on the directories dirO (staging) and dirD
\* (output): [ret, docs], the return value and the output directory afterwards
convert_csv_to_json(file_path, dirO, dirD) ==
    LET df == read_csv_file(dirO[file_path])
        json_data == convertRows(df.rows, <<>>)
    IN IF ~validate_csv_structure(df) THEN [ret |-> FALSE, docs |-> dirD]
       ELSE IF json_data = <<>> THEN [ret |-> FALSE, docs |-> dirD]
       ELSE [ret |-> TRUE,
             docs |-> writeFile(dirD, generate_json_filename(file_path), json_data)]

\* every ordering of a finite set (os.listdir returns the names in any order)
Orderings(S) ==
    {f \in [1..Cardinality(S) -> S] : \A i, j \in 1..Cardinality(S) : i # j => f[i] # f[j]}

\* get_csv_files: the staged names with a .csv suffix in any letter case
csvNames(dirO) == {n \in DOMAIN dirO : isCsvName(n)}

(***************************************************************************)
(* convert_all, step by step                                               *)
(***************************************************************************)
\* what a call has returned so far: nothing, a pair of counts, or an exception
NoRet == [kind |-> "none", success |-> 0, total |-> 0]
Counts(s, t) == [kind |-> "returned", success |-> s, total |-> t]
Raised == [kind |-> "raised", success |-> 0, total |-> 0]

IdleCv == [files |-> <<>>, i |-> 0, success_count |-> 0, total_count |-> 0,
           ret |-> NoRet, back |-> "done"]

\* convert_all up to the loop: list the staging directory; (0, 0) when it
\* holds no CSV file; os.listdir may raise, which leaves convert_all
ConvertAllList ==
    /\ pc = "cv_list"
    /\ \/ \E files \in Orderings(csvNames(origin)) :
            /\ files # <<>>
            /\ cv' = [cv EXCEPT !.files = files, !.i = 1, !.success_count = 0,
                                !.total_count = Len(files)]
            /\ pc' = "cv_file"
       \/ /\ csvNames(origin) = {}
          /\ cv' = [cv EXCEPT !.ret = Counts(0, 0)]
          /\ pc' = cv.back
       \/ /\ cv' = [cv EXCEPT !.ret = Raised]
          /\ pc' = cv.back
    /\ UNCHANGED <<pure, origin, docs, net, fp, cr, dl, stats, log>>

\* one iteration of the loop of convert_all: convert_csv_to_json on the next
\* file, count it, and return after the last
ConvertFile ==
    /\ pc = "cv_file"
    /\ LET csv_file == cv.files[cv.i]
           r == convert_csv_to_json(csv_file, origin, docs)
           last == cv.i = cv.total_count
           success_count == IF r.ret THEN cv.success_count + 1 ELSE cv.success_count
       IN /\ docs' = r.docs
          /\ cv' = [cv EXCEPT !.success_count = success_count,
                              !.i = @ + 1,
                              !.ret = IF last THEN Counts(success_count, cv.total_count)
                                      ELSE @]
          /\ log' = [log EXCEPT !.conv = Append(@, [file |-> csv_file, ret |-> r.ret])]
          /\ pc' = IF last THEN cv.back ELSE "cv_file"
    /\ UNCHANGED <<pure, origin, net, fp, cr, dl, stats>>

(***************************************************************************)
(* Frames at rest                                                          *)
(***************************************************************************)
IdleFp == [attempt |-> 0, gets |-> 0, sleeps |-> 0, ret |-> "none"]
IdleCr == [items |-> <<>>, i |-> 0, success_count |-> 0, total_count |-> 0,
           paces |-> 0, ret |-> NoRet, back |-> "done"]
IdleDl == [url |-> "u0", filename |-> <<>>, path |-> <<>>, attempt |-> 0,
           gets |-> 0, sleeps |-> 0, partial |-> FALSE, ret |-> "none"]
IdleStats == [crawl_success_count |-> 0, crawl_total_count |-> 0,
              convert_success_count |-> 0, convert_total_count |-> 0,
              errors |-> <<>>, env |-> "none", run |-> "none", exit_code |-> 0 - 1]
IdleLog == [conv |-> <<>>, calls |-> <<>>, runs |-> 1]
NoPage == [empty |-> TRUE, lis |-> <<>>]

(***************************************************************************)
(* SpecConvert: convert_all on a staging directory of up to MaxStaged      *)
(* complete files, each holding any table of the catalogue                 *)
(***************************************************************************)
MaxStaged == 3

Json2025 == <<"2", "0", "2", "5", ".", "j", "s", "o", "n">>
StaleRecords == <<[date |-> <<"2", "0", "2", "3", "-", "1", "2", "-", "3", "1">>, week |-> <<>>, isHoliday |-> TRUE,
                   description |-> <<"s", "t", "a", "l", "e">>]>>

StagedUniverse ==
    {Y114 \o DotCsv, <<"a">> \o Y114 \o <<".", "C", "S", "V">>, <<"a">> \o DotCsv,
     <<"b">> \o <<".", "C", "S", "V">>, <<"a", ".", "t", "x", "t">>}

StagedDirs ==
    UNION {[S -> {FullFile(t) : t \in TableIds}] :
             S \in {T \in SUBSET StagedUniverse : Cardinality(T) <= MaxStaged}}

InitConvert ==
    /\ pure = <<>>
    /\ pc = "cv_list"
    /\ origin \in StagedDirs
    /\ docs \in {EmptyDir, [n \in {Json2025} |-> StaleRecords]}
    /\ net = NoPage
    /\ fp = IdleFp
    /\ cr = IdleCr
    /\ dl = IdleDl
    /\ cv = IdleCv
    /\ stats = IdleStats
    /\ log = IdleLog

NextConvert == ConvertAllList \/ ConvertFile

SpecConvert == InitConvert /\ [][NextConvert]_vars

\* the rows of a complete staged file that do not raise, as positions
GoodRows(file) ==
    {k \in 1..Len(Tables[file.tbl].rows) : ~Tables[file.tbl].rows[k].raises}

\* structure validation fails, or no record survives
FailsClosed(file) ==
    \/ Len(Tables[file.tbl].rows) = 0
    \/ Tables[file.tbl].cols < 4
    \/ GoodRows(file) = {}

\* recs holds exactly one record per row of file that does not raise, in row
\* order
OnePerGoodRow(recs, file) ==
    LET good == GoodRows(file)
        at(m) == CHOOSE k \in good : Cardinality({j \in good : j <= k}) = m
    IN /\ Len(recs) = Cardinality(good)
       /\ \A m \in 1..Len(recs) : recs[m] = rowRecord(Tables[file.tbl].rows[at(m)])

CsvStaged == {n \in DOMAIN origin : Len(n) >= 4 /\ lower(SubSeq(n, Len(n) - 3, Len(n))) = <<".", "c", "s", "v">>}

\* C8: when convert_all has returned: with no CSV file staged it returned
\* (0, 0) and converted nothing; otherwise it converted every staged CSV file
\* exactly once, returned (files converted with success, CSV files), and a
\* file that fails did not keep any convertible file from being converted
\* and written.
C8_ConvertAll ==
    (pc = "done" /\ cv.ret.kind = "returned") =>
        LET csv == CsvStaged
            calls == log.conv
        IN IF csv = {}
           THEN cv.ret = Counts(0, 0) /\ calls = <<>>
           ELSE /\ Len(calls) = Cardinality(csv)
                /\ \A n \in csv : Cardinality({i \in 1..Len(calls) : calls[i].file = n}) = 1
                /\ cv.ret.total = Cardinality(csv)
                /\ cv.ret.success = Cardinality({i \in 1..Len(calls) : calls[i].ret})
                /\ \A i \in 1..Len(calls) :
                      /\ calls[i].ret = ~FailsClosed(origin[calls[i].file])
                      /\ calls[i].ret => generate_json_filename(calls[i].file) \in DOMAIN docs

\* three staged CSV files, one of them with 3 columns: the batch returned
\* (2, 3) and wrote an output file for each of the other two
C8_Witness ==
    /\ pc = "done"
    /\ cv.ret = Counts(2, 3)
    /\ \E i \in 1..Len(log.conv) : origin[log.conv[i].file].tbl = 2
    /\ Cardinality({generate_json_filename(log.conv[i].file) :
                      i \in {j \in 1..Len(log.conv) : log.conv[j].ret}}) = 2
    /\ \A i \in 1..Len(log.conv) :
          log.conv[i].ret => generate_json_filename(log.conv[i].file) \in DOMAIN docs

(***************************************************************************)
(* crawler.py: fetch_page_content, download_file and crawl, step by step   *)
(*                                                                         *)
(* net is the page the portal serves: [empty, lis], empty for a response   *)
(* without text. Every GET ends as the network decides: with a response,   *)
(* or with a requests.RequestException (connection error, timeout, HTTP    *)
(* error status); the GET of the page may also end with an exception of    *)
(* another class, which fetch_page_content does not catch.                 *)
(***************************************************************************)
FetchMaxRetries_OneMore == 3 + 1
FetchMaxRetries == 3
DownloadMaxRetries_OneMore == 3 + 1
DownloadMaxRetries == 3

\* bodies a download may receive: no bytes at all (0), or a table
DownloadBodies == {0, 1, 5}

sanitize_KeepsAll(filename) ==
    IF endswith(rstrip(filename), DotCsv) THEN rstrip(filename)
    ELSE rstrip(filename) \o DotCsv

\* safe_filename of download_file (lines 162-164)
sanitize(filename) ==
    LET kept == SelectSeq(filename, LAMBDA c : isalnum(c) \/ c \in {" ", "-", "_", "."})
        safe_filename == rstrip(kept)
    IN IF endswith(safe_filename, DotCsv) THEN safe_filename
       ELSE safe_filename \o DotCsv

cleanup_KeepsFile(dirO, file_path) == dirO

\* the cleanup of the except branch (lines 201-202)
cleanup(dirO, file_path) ==
    IF exists(dirO, file_path) THEN removeFile(dirO, file_path) ELSE dirO

countSuccess_CountsAll(success_count, ok) == success_count + 1

\* lines 237-238
countSuccess(success_count, ok) == IF ok THEN success_count + 1 ELSE success_count

\* the record of a finished download_file call
CallRecord(d, ret) ==
    [url |-> d.url, filename |-> d.filename, gets |-> d.gets, sleeps |-> d.sleeps,
     ret |-> ret]

\* one attempt of fetch_page_content: the GET and what follows it
FetchGet ==
    /\ pc = "fetch_get"
    /\ \/ /\ fp' = [fp EXCEPT !.gets = @ + 1, !.ret = "html"]
          /\ pc' = "crawl_parse"
          /\ cr' = cr
       \/ /\ fp.attempt < FetchMaxRetries - 1
          /\ fp' = [fp EXCEPT !.gets = @ + 1, !.attempt = @ + 1, !.sleeps = @ + 1]
          /\ pc' = "fetch_get"
          /\ cr' = cr
       \/ /\ ~(fp.attempt < FetchMaxRetries - 1)
          /\ fp' = [fp EXCEPT !.gets = @ + 1, !.ret = "None"]
          /\ pc' = "crawl_parse"
          /\ cr' = cr
       \/ /\ fp' = [fp EXCEPT !.gets = @ + 1, !.ret = "raised"]
          /\ cr' = [cr EXCEPT !.ret = Raised]
          /\ pc' = cr.back
    /\ UNCHANGED <<pure, origin, docs, net, dl, cv, stats, log>>

\* crawl after fetch_page_content returned: the two early returns and the
\* start of the download loop
CrawlParse ==
    /\ pc = "crawl_parse"
    /\ LET resource_items == parse_resource_items(net.lis)
       IN \/ /\ fp.ret = "None" \/ net.empty
             /\ cr' = [cr EXCEPT !.ret = Counts(0, 0)]
             /\ pc' = cr.back
          \/ /\ ~(fp.ret = "None" \/ net.empty)
             /\ resource_items = <<>>
             /\ cr' = [cr EXCEPT !.ret = Counts(0, 0)]
             /\ pc' = cr.back
          \/ /\ ~(fp.ret = "None" \/ net.empty)
             /\ resource_items # <<>>
             /\ cr' = [cr EXCEPT !.items = resource_items, !.i = 1,
                                 !.success_count = 0,
                                 !.total_count = Len(resource_items)]
             /\ pc' = "dl_start"
    /\ UNCHANGED <<pure, origin, docs, net, fp, dl, cv, stats, log>>

\* download_file up to its loop: the safe file name and the early return
\* when the file is already staged
DownloadStart ==
    /\ pc = "dl_start"
    /\ LET item == cr.items[cr.i]
           file_path == sanitize(item.filename)
           call == [IdleDl EXCEPT !.url = item.link.url, !.filename = item.filename,
                                  !.path = file_path]
       IN \/ /\ exists(origin, file_path)
             /\ dl' = [call EXCEPT !.ret = "True"]
             /\ log' = [log EXCEPT !.calls = Append(@, CallRecord(call, TRUE))]
             /\ pc' = "crawl_next"
          \/ /\ ~exists(origin, file_path)
             /\ dl' = call
             /\ log' = log
             /\ pc' = "dl_get"
    /\ UNCHANGED <<pure, origin, docs, net, fp, cr, cv, stats>>

\* the GET of one attempt: an exception, or a response, for which the file
\* is opened for writing (created empty)
DownloadGet ==
    /\ pc = "dl_get"
    /\ \/ /\ dl' = [dl EXCEPT !.gets = @ + 1]
          /\ origin' = origin
          /\ pc' = "dl_except"
       \/ \E body \in DownloadBodies :
            /\ dl' = [dl EXCEPT !.gets = @ + 1]
            /\ origin' = writeFile(origin, dl.path, [tbl |-> body, written |-> 0])
            /\ pc' = "dl_write"
    /\ UNCHANGED <<pure, docs, net, fp, cr, cv, stats, log>>

\* the streamed write: the next chunk, an error of the stream or of the
\* write, or the end of the body followed by the size check
DownloadWrite ==
    /\ pc = "dl_write"
    /\ LET f == origin[dl.path]
       IN \/ /\ f.written < NChunks(f.tbl)
             /\ origin' = writeFile(origin, dl.path, [f EXCEPT !.written = @ + 1])
             /\ dl' = [dl EXCEPT !.partial = TRUE]
             /\ log' = log
             /\ pc' = "dl_write"
          \/ /\ f.written < NChunks(f.tbl)
             /\ UNCHANGED <<origin, dl, log>>
             /\ pc' = "dl_except"
          \/ /\ f.written = NChunks(f.tbl)
             /\ f.written = 0
             /\ origin' = removeFile(origin, dl.path)
             /\ UNCHANGED <<dl, log>>
             /\ pc' = "dl_except"
          \/ /\ f.written = NChunks(f.tbl)
             /\ f.written # 0
             /\ origin' = origin
             /\ dl' = [dl EXCEPT !.ret = "True"]
             /\ log' = [log EXCEPT !.calls = Append(@, CallRecord(dl, TRUE))]
             /\ pc' = "crawl_next"
    /\ UNCHANGED <<pure, docs, net, fp, cr, cv, stats>>

\* the except branch: remove what was written, then retry after a sleep or
\* return False
DownloadExcept ==
    /\ pc = "dl_except"
    /\ origin' = cleanup(origin, dl.path)
    /\ \/ /\ dl.attempt < DownloadMaxRetries - 1
          /\ dl' = [dl EXCEPT !.attempt = @ + 1, !.sleeps = @ + 1]
          /\ log' = log
          /\ pc' = "dl_get"
       \/ /\ ~(dl.attempt < DownloadMaxRetries - 1)
          /\ dl' = [dl EXCEPT !.ret = "False"]
          /\ log' = [log EXCEPT !.calls = Append(@, CallRecord(dl, FALSE))]
          /\ pc' = "crawl_next"
    /\ UNCHANGED <<pure, docs, net, fp, cr, cv, stats>>

\* the rest of one iteration of the loop of crawl: count, then pace and go on
\* or return
CrawlNext ==
    /\ pc = "crawl_next"
    /\ LET success_count == countSuccess(cr.success_count, dl.ret = "True")
       IN \/ /\ cr.i < cr.total_count
             /\ cr' = [cr EXCEPT !.success_count = success_count, !.i = @ + 1,
                                 !.paces = @ + 1]
             /\ pc' = "dl_start"
          \/ /\ ~(cr.i < cr.total_count)
             /\ cr' = [cr EXCEPT !.success_count = success_count,
                                 !.ret = Counts(success_count, cr.total_count)]
             /\ pc' = cr.back
    /\ UNCHANGED <<pure, origin, docs, net, fp, dl, cv, stats, log>>

(***************************************************************************)
(* SpecCrawl: crawl on pages of up to MaxCrawlItems items, two of which    *)
(* have the same safe file name, with either file staged by an earlier run *)
(***************************************************************************)
MaxCrawlItems == 2

Labelled(url, label) ==
    [a |-> TRUE, href |-> Href(url, TRUE, <<>>, FALSE), spans |-> <<Span(label, FALSE)>>]

CrawlLis ==
    {Labelled("u1", Y114), Labelled("u2", <<"a", "/">>), Labelled("u3", <<"a">>),
     Labelled("u4", GoogleLabel)}

CrawlPages ==
    {NoPage} \cup {[empty |-> FALSE, lis |-> l] : l \in SeqsUpTo(CrawlLis, MaxCrawlItems)}

PreStaged ==
    UNION {[S -> {FullFile(5)}] : S \in SUBSET {Y114 \o DotCsv, <<"a">> \o DotCsv}}

InitCrawl ==
    /\ pure = <<>>
    /\ pc = "fetch_get"
    /\ origin \in PreStaged
    /\ docs = EmptyDir
    /\ net \in CrawlPages
    /\ fp = IdleFp
    /\ cr = IdleCr
    /\ dl = IdleDl
    /\ cv = IdleCv
    /\ stats = IdleStats
    /\ log = IdleLog

NextCrawl ==
    \/ FetchGet
    \/ CrawlParse
    \/ DownloadStart
    \/ DownloadGet
    \/ DownloadWrite
    \/ DownloadExcept
    \/ CrawlNext

SpecCrawl == InitCrawl /\ [][NextCrawl]_vars

\* a staged file that is complete and not empty
Complete(f) == f.written > 0 /\ f.written = NChunks(f.tbl)

\* C1: when download_file has returned False no file is at its safe path;
\* an attempt that failed has removed what it wrote before the next GET; and
\* between calls the staging directory holds no truncated and no zero-byte
\* file.
C1_NoPartialFile ==
    /\ (pc = "crawl_next" /\ dl.ret = "False") => dl.path \notin DOMAIN origin
    /\ (pc = "dl_get" /\ dl.attempt > 0) => dl.path \notin DOMAIN origin
    /\ pc \in {"dl_start", "crawl_next", "done"} =>
         \A n \in DOMAIN origin : Complete(origin[n])

\* download_file returned False after three GETs, having had part of a body
\* on disk
C1_Witness ==
    /\ pc = "crawl_next"
    /\ dl.ret = "False"
    /\ dl.gets = 3
    /\ dl.partial
    /\ dl.path \notin DOMAIN origin

\* the safe file name the specification gives a display name: the characters
\* that are alphanumeric, space, hyphen, underscore or dot, without trailing
\* blanks, with .csv appended unless already there
SafeName(filename) ==
    LET legal == Digits \cup Lower \cup Upper \cup Cjk \cup {" ", "-", "_", "."}
        kept == SelectSeq(filename, LAMBDA c : c \in legal)
        last == IF \E i \in 1..Len(kept) : kept[i] # " "
                THEN CHOOSE i \in 1..Len(kept) :
                        kept[i] # " " /\ \A j \in (i + 1)..Len(kept) : kept[j] = " "
                ELSE 0
        trimmed == SubSeq(kept, 1, last)
    IN IF Len(trimmed) >= 4 /\ SubSeq(trimmed, Len(trimmed) - 3, Len(trimmed)) = <<".", "c", "s", "v">>
       THEN trimmed ELSE trimmed \o <<".", "c", "s", "v">>

\* C2 as claimed: of two calls with the same safe file name the second
\* issues no request and returns success.
C2_AsClaimed ==
    \A i, j \in 1..Len(log.calls) :
        (i < j /\ SafeName(log.calls[i].filename) = SafeName(log.calls[j].filename)) =>
            log.calls[j].gets = 0 /\ log.calls[j].ret

\* C2 amended: of two calls with the same safe file name, when the first
\* returned success the second issues no request and returns success,
\* whatever its URL.
C2_Idempotent ==
    \A i, j \in 1..Len(log.calls) :
        (/\ i < j
         /\ SafeName(log.calls[i].filename) = SafeName(log.calls[j].filename)
         /\ log.calls[i].ret) =>
            log.calls[j].gets = 0 /\ log.calls[j].ret

\* "a" was downloaded with at least one GET, and a later call for "a/", with
\* another URL, returned success without any GET
C2_Witness ==
    \E i, j \in 1..Len(log.calls) :
        /\ i < j
        /\ log.calls[i].filename = <<"a">>
        /\ log.calls[j].filename = <<"a", "/">>
        /\ log.calls[i].url # log.calls[j].url
        /\ log.calls[i].gets > 0
        /\ log.calls[i].ret
        /\ log.calls[j].gets = 0
        /\ log.calls[j].ret

\* C10: when crawl has returned: after a failed fetch, an empty page or a
\* parse without resources it returned (0, 0) and called download_file not
\* once; otherwise it called download_file once per parsed resource, in page
\* order, whether or not earlier ones failed, and returned (calls that
\* returned success, parsed resources), success <= total.
C10_Crawl ==
    (pc = "done" /\ cr.ret.kind = "returned") =>
        LET resources == parse_resource_items(net.lis)
            calls == log.calls
        IN IF fp.ret # "html" \/ net.empty \/ resources = <<>>
           THEN cr.ret = Counts(0, 0) /\ calls = <<>>
           ELSE /\ Len(calls) = Len(resources)
                /\ \A i \in 1..Len(calls) :
                      /\ calls[i].url = resources[i].link.url
                      /\ calls[i].filename = resources[i].filename
                /\ cr.ret.total = Len(resources)
                /\ cr.ret.success = Cardinality({i \in 1..Len(calls) : calls[i].ret})
                /\ cr.ret.success <= cr.ret.total

\* the first of two downloads failed and the second was still made and
\* succeeded: crawl returned (1, 2)
C10_Witness ==
    /\ pc = "done"
    /\ cr.ret = Counts(1, 2)
    /\ Len(log.calls) = 2
    /\ ~log.calls[1].ret
    /\ log.calls[2].ret
    /\ log.calls[2].gets > 0

(***************************************************************************)
(* main.py: TaiwanCalendarSystem.run and main, step by step                *)
(*                                                                         *)
(* stats holds TaiwanCalendarSystem.stats (the four counts and errors, a   *)
(* sequence of tags), how check_environment ended (env), what run returned *)
(* (run) and the exit code of the process (-1 while it runs).              *)
(***************************************************************************)
overall_success_ConversionOnly(st) ==
    st.convert_success_count > 0

\* summary['overall_success'] (line 214)
overall_success(st) ==
    /\ Len(st.errors) = 0
    /\ st.crawl_success_count > 0
    /\ st.convert_success_count > 0

afterCrawling_StopOnFailure(crawl_success) ==
    IF crawl_success THEN "exec_convert" ELSE "summary"

\* run after execute_crawling returned crawl_success (lines 277-280): the
\* conversion comes next, whatever crawl_success is
afterCrawling(crawl_success) == "exec_convert"

\* check_environment: it passes, it returns False (a package is missing, the
\* directories cannot be made), or it fails with an exception it records
CheckEnvironment ==
    /\ pc = "check_env"
    /\ \/ /\ stats' = [stats EXCEPT !.env = "passed"]
          /\ pc' = "exec_crawl"
       \/ /\ stats' = [stats EXCEPT !.env = "failed", !.run = "False"]
          /\ pc' = "exit"
       \/ /\ stats' = [stats EXCEPT !.env = "raised", !.run = "False",
                                    !.errors = Append(@, "env_error")]
          /\ pc' = "exit"
    /\ UNCHANGED <<pure, origin, docs, net, fp, cr, dl, cv, log>>

\* execute_crawling up to the call of crawl
ExecuteCrawling ==
    /\ pc = "exec_crawl"
    /\ fp' = IdleFp
    /\ cr' = [IdleCr EXCEPT !.back = "crawl_returned"]
    /\ pc' = "fetch_get"
    /\ UNCHANGED <<pure, origin, docs, net, dl, cv, stats, log>>

\* execute_crawling after crawl returned or raised
CrawlReturned ==
    /\ pc = "crawl_returned"
    /\ \/ /\ cr.ret.kind = "returned"
          /\ cr.ret.success > 0
          /\ stats' = [stats EXCEPT !.crawl_success_count = cr.ret.success,
                                    !.crawl_total_count = cr.ret.total]
       \/ /\ cr.ret.kind = "returned"
          /\ ~(cr.ret.success > 0)
          /\ stats' = [stats EXCEPT !.crawl_success_count = cr.ret.success,
                                    !.crawl_total_count = cr.ret.total,
                                    !.errors = Append(@, "crawl_nothing")]
       \/ /\ cr.ret.kind = "raised"
          /\ stats' = [stats EXCEPT !.errors = Append(@, "crawl_error")]
    /\ pc' = afterCrawling(cr.ret.kind = "returned" /\ cr.ret.success > 0)
    /\ UNCHANGED <<pure, origin, docs, net, fp, cr, dl, cv, log>>

\* execute_conversion up to the call of convert_all
ExecuteConversion ==
    /\ pc = "exec_convert"
    /\ cv' = [IdleCv EXCEPT !.back = "convert_returned"]
    /\ pc' = "cv_list"
    /\ UNCHANGED <<pure, origin, docs, net, fp, cr, dl, stats, log>>

\* execute_conversion after convert_all returned or raised
ConvertReturned ==
    /\ pc = "convert_returned"
    /\ \/ /\ cv.ret.kind = "returned"
          /\ cv.ret.success > 0
          /\ stats' = [stats EXCEPT !.convert_success_count = cv.ret.success,
                                    !.convert_total_count = cv.ret.total]
       \/ /\ cv.ret.kind = "returned"
          /\ ~(cv.ret.success > 0)
          /\ stats' = [stats EXCEPT !.convert_success_count = cv.ret.success,
                                    !.convert_total_count = cv.ret.total,
                                    !.errors = Append(@, "convert_nothing")]
       \/ /\ cv.ret.kind = "raised"
          /\ stats' = [stats EXCEPT !.errors = Append(@, "convert_error")]
    /\ pc' = "summary"
    /\ UNCHANGED <<pure, origin, docs, net, fp, cr, dl, cv, log>>

\* the end of run: the summary and its overall_success, or an exception in
\* the summary, which run records before it returns False
GenerateSummary ==
    /\ pc = "summary"
    /\ \/ stats' = [stats EXCEPT !.run = IF overall_success(stats) THEN "True" ELSE "False"]
       \/ stats' = [stats EXCEPT !.run = "False", !.errors = Append(@, "system_error")]
    /\ pc' = "exit"
    /\ UNCHANGED <<pure, origin, docs, net, fp, cr, dl, cv, log>>

\* main after run returned: the exit code
Exit ==
    /\ pc = "exit"
    /\ stats' = [stats EXCEPT !.exit_code = IF stats.run = "True" THEN 0 ELSE 1]
    /\ pc' = "done"
    /\ UNCHANGED <<pure, origin, docs, net, fp, cr, dl, cv, log>>

(***************************************************************************)
(* Spec: one run of main on the pages of SpecCrawl, with either file       *)
(* staged by an earlier run, convertible or not                            *)
(***************************************************************************)
PreStagedRun ==
    UNION {[S -> {FullFile(2), FullFile(5)}] :
             S \in SUBSET {Y114 \o DotCsv, <<"a">> \o DotCsv}}

Init ==
    /\ pure = <<>>
    /\ pc = "check_env"
    /\ origin \in PreStagedRun
    /\ docs = EmptyDir
    /\ net \in CrawlPages
    /\ fp = IdleFp
    /\ cr = IdleCr
    /\ dl = IdleDl
    /\ cv = IdleCv
    /\ stats = IdleStats
    /\ log = IdleLog

Next ==
    \/ CheckEnvironment
    \/ ExecuteCrawling
    \/ CrawlReturned
    \/ ExecuteConversion
    \/ ConvertReturned
    \/ GenerateSummary
    \/ Exit
    \/ NextCrawl
    \/ NextConvert

Spec == Init /\ [][Next]_vars

\* C9: when the process has exited, the exit code is 0 only if some
\* download_file call returned success, some convert_csv_to_json call
\* returned success and no error was recorded; it is 1 in every other
\* outcome: the environment check failed, a stage had no success, a stage or
\* the summary raised.
C9_ExitCode ==
    pc = "done" =>
        LET downloaded == \E i \in 1..Len(log.calls) : log.calls[i].ret
            converted == \E i \in 1..Len(log.conv) : log.conv[i].ret
        IN /\ stats.exit_code \in {0, 1}
           /\ stats.exit_code = 0 =>
                 downloaded /\ converted /\ stats.errors = <<>>
           /\ ~(downloaded /\ converted /\ stats.errors = <<>>) => stats.exit_code = 1
           /\ stats.env # "passed" => stats.exit_code = 1
           /\ (cr.ret.kind = "raised" \/ cv.ret.kind = "raised") => stats.exit_code = 1
           /\ (\E i \in 1..Len(stats.errors) : stats.errors[i] = "system_error")
                 => stats.exit_code = 1

\* a run in which one download failed, another succeeded and a file was
\* converted exited with 0
C9_Witness ==
    /\ pc = "done"
    /\ stats.exit_code = 0
    /\ \E i \in 1..Len(log.calls) : log.calls[i].ret /\ log.calls[i].gets > 0
    /\ \E i \in 1..Len(log.calls) : ~log.calls[i].ret
    /\ \E i \in 1..Len(log.conv) : log.conv[i].ret

(***************************************************************************)
(* Records and the dates of their rows (SpecConvert)                       *)
(***************************************************************************)
\* text of the form YYYY-MM-DD that names a day of the calendar
IsCalendarDate(t) ==
    /\ Len(t) = 10
    /\ t[5] = "-" /\ t[8] = "-"
    /\ \A i \in {1, 2, 3, 4, 6, 7, 9, 10} : t[i] \in Digits
    /\ LET y == toInt(SubSeq(t, 1, 4))
           m == toInt(SubSeq(t, 6, 7))
           d == toInt(SubSeq(t, 9, 10))
       IN m \in 1..12 /\ d \in 1..daysInMonth(y, m)

\* the first column of the row can be parsed as a date: by one of the five
\* patterns or by the generic parser
ParseableDate(row) ==
    \/ \E k \in 1..5 : Parses(row.date, k)
    \/ row.generic.ok

\* C11 as claimed: every record of every output file has a date in
\* YYYY-MM-DD form, and the output of a converted file holds one record per
\* row that neither raises nor has an unparseable first column.
C11_AsClaimed ==
    /\ \A n \in DOMAIN docs : \A k \in 1..Len(docs[n]) : IsCalendarDate(docs[n][k].date)
    /\ \A i \in 1..Len(log.conv) :
          (log.conv[i].ret /\ i = Len(log.conv)) =>
             LET file == origin[log.conv[i].file]
                 rows == Tables[file.tbl].rows
             IN Len(docs[generate_json_filename(log.conv[i].file)]) =
                   Cardinality({k \in GoodRows(file) : ParseableDate(rows[k])})

(***************************************************************************)
(* Interruption of the process (KeyboardInterrupt) and a later run         *)
(*                                                                         *)
(* KeyboardInterrupt is no Exception: none of the except clauses of        *)
(* crawler.py and converter.py catches it, the with blocks close the file  *)
(* being written as it is, and main exits with code 1. log.runs counts the *)
(* processes started.                                                      *)
(***************************************************************************)
MaxRuns == 2

\* the process is interrupted between two steps, wherever it is
Interrupt ==
    /\ pc \notin {"done", "killed"}
    /\ pc' = "killed"
    /\ fp' = IdleFp
    /\ cr' = IdleCr
    /\ dl' = IdleDl
    /\ cv' = IdleCv
    /\ stats' = [IdleStats EXCEPT !.run = "interrupted", !.exit_code = 1]
    /\ UNCHANGED <<pure, origin, docs, net, log>>

\* the process is interrupted inside json.dump: the output file was opened
\* for writing, which empties it, and holds the records dumped so far
InterruptJsonWrite ==
    /\ pc = "cv_file"
    /\ LET csv_file == cv.files[cv.i]
           df == read_csv_file(origin[csv_file])
           json_data == convertRows(df.rows, <<>>)
       IN /\ validate_csv_structure(df)
          /\ json_data # <<>>
          /\ \E k \in 0..(Len(json_data) - 1) :
                docs' = writeFile(docs, generate_json_filename(csv_file),
                                  SubSeq(json_data, 1, k))
    /\ pc' = "killed"
    /\ fp' = IdleFp
    /\ cr' = IdleCr
    /\ dl' = IdleDl
    /\ cv' = IdleCv
    /\ stats' = [IdleStats EXCEPT !.run = "interrupted", !.exit_code = 1]
    /\ UNCHANGED <<pure, origin, net, log>>

\* the program is started again on the directories as they were left
Restart ==
    /\ pc = "killed"
    /\ log.runs < MaxRuns
    /\ pc' = "check_env"
    /\ stats' = IdleStats
    /\ log' = [IdleLog EXCEPT !.runs = log.runs + 1]
    /\ UNCHANGED <<pure, origin, docs, net, fp, cr, dl, cv>>

InterruptPages ==
    {NoPage,
     [empty |-> FALSE, lis |-> <<Labelled("u4", GoogleLabel)>>],
     [empty |-> FALSE, lis |-> <<Labelled("u3", <<"a">>)>>],
     [empty |-> FALSE, lis |-> <<Labelled("u1", Y114), Labelled("u3", <<"a">>)>>]}

InitInterrupt ==
    /\ pure = <<>>
    /\ pc = "check_env"
    /\ origin = EmptyDir
    /\ docs = EmptyDir
    /\ net \in InterruptPages
    /\ fp = IdleFp
    /\ cr = IdleCr
    /\ dl = IdleDl
    /\ cv = IdleCv
    /\ stats = IdleStats
    /\ log = IdleLog

NextInterrupt ==
    \/ Next
    \/ Interrupt
    \/ InterruptJsonWrite
    \/ Restart

SpecInterrupt == InitInterrupt /\ [][NextInterrupt]_vars

\* the output file n holds the whole record array of the conversion of a
\* staged file
WholeOutput(n) ==
    \E f \in DOMAIN origin :
        /\ isCsvName(f)
        /\ generate_json_filename(f) = n
        /\ docs[n] # <<>>
        /\ docs[n] = convertRows(read_csv_file(origin[f]).rows, <<>>)

\* C12 as claimed: after an interruption every staged file holds the whole
\* body it was downloaded from and every output file a whole record array;
\* and a file that download_file skips as already downloaded is complete.
C12_AsClaimed ==
    /\ pc = "killed" =>
          /\ \A n \in DOMAIN origin : origin[n].written = NChunks(origin[n].tbl)
          /\ \A n \in DOMAIN docs : WholeOutput(n)
    /\ (pc = "crawl_next" /\ dl.ret = "True" /\ dl.gets = 0) =>
          Complete(origin[dl.path])

(***************************************************************************)
(* Attempts, waits and termination of the two retry loops                  *)
(***************************************************************************)
\* crawl, on pages whose items have the same safe file name, where every
\* step that can be taken is taken in the end: the program runs on, and
\* every GET ends with a response or an exception (the requests have
\* timeouts)
FairPages ==
    {NoPage}
    \cup {[empty |-> FALSE, lis |-> l] :
            l \in SeqsUpTo({Labelled("u2", <<"a", "/">>), Labelled("u3", <<"a">>)},
                           MaxCrawlItems)}

InitCrawlFair ==
    /\ pure = <<>>
    /\ pc = "fetch_get"
    /\ origin \in PreStaged
    /\ docs = EmptyDir
    /\ net \in FairPages
    /\ fp = IdleFp
    /\ cr = IdleCr
    /\ dl = IdleDl
    /\ cv = IdleCv
    /\ stats = IdleStats
    /\ log = IdleLog

SpecCrawlFair == InitCrawlFair /\ [][NextCrawl]_vars /\ WF_vars(NextCrawl)

\* the counts of download_file at each point of its loop, and at its return
DownloadCounts ==
    /\ pc = "dl_get" =>
          /\ dl.attempt < 3
          /\ dl.gets = dl.attempt
          /\ dl.sleeps = dl.attempt
          /\ ~exists(origin, dl.path)
    /\ pc \in {"dl_write", "dl_except"} =>
          /\ dl.attempt < 3
          /\ dl.gets = dl.attempt + 1
          /\ dl.sleeps = dl.attempt
    /\ (pc = "crawl_next" /\ dl.gets > 0) =>
          /\ dl.gets <= 3
          /\ dl.sleeps = dl.gets - 1
          /\ dl.ret = "True" => Complete(origin[dl.path])
          /\ dl.ret = "False" => dl.gets = 3 /\ ~exists(origin, dl.path)
    /\ \A i \in 1..Len(log.calls) :
          LET c == log.calls[i]
          IN /\ c.gets <= 3
             /\ c.gets > 0 => c.sleeps = c.gets - 1
             /\ ~c.ret => c.gets = 3

\* C13: a download_file call that finds no file at its safe path issues at
\* most 3 GETs; it returns success at the first attempt that leaves a
\* non-empty complete file, an attempt with a zero-byte result is removed
\* and followed by the next attempt, it has waited once between attempts
\* and not after the last, it returns failure only after 3 failed attempts;
\* and every call returns.
C13_DownloadAttempts ==
    /\ []DownloadCounts
    /\ [][(pc = "dl_write" /\ origin[dl.path].written = NChunks(origin[dl.path].tbl)) =>
            IF origin[dl.path].written > 0
            THEN pc' = "crawl_next" /\ dl'.ret = "True" /\ origin' = origin
            ELSE pc' = "dl_except" /\ ~exists(origin', dl.path)]_vars
    /\ [][pc = "dl_except" =>
            IF dl.attempt < 2
            THEN pc' = "dl_get" /\ dl'.sleeps = dl.sleeps + 1 /\ dl'.attempt = dl.attempt + 1
            ELSE pc' = "crawl_next" /\ dl'.ret = "False" /\ dl'.sleeps = dl.sleeps]_vars
    /\ (pc = "dl_start") ~> (pc = "crawl_next")

\* a call returned success at its third GET, after two waits
C13_Witness ==
    /\ pc = "crawl_next"
    /\ dl.ret = "True"
    /\ dl.gets = 3
    /\ dl.sleeps = 2
    /\ dl.partial
    /\ Complete(origin[dl.path])

\* C14: fetch_page_content issues at most 3 GETs; it returns the page at the
\* first GET that succeeds, after one wait per failed GET before it; it
\* returns None only after 3 failed GETs and 2 waits, none after the last.
C14_FetchAttempts ==
    /\ fp.gets <= 3
    /\ pc = "fetch_get" =>
          fp.attempt < 3 /\ fp.gets = fp.attempt /\ fp.sleeps = fp.attempt
    /\ fp.ret = "html" => fp.gets \in 1..3 /\ fp.sleeps = fp.gets - 1
    /\ fp.ret = "None" => fp.gets = 3 /\ fp.sleeps = 2
    /\ (fp.ret = "none" /\ pc # "fetch_get") => fp.gets = 0

\* the page was returned by the third GET, after two waits
C14_Witness ==
    /\ pc = "crawl_parse"
    /\ fp.ret = "html"
    /\ fp.gets = 3
    /\ fp.sleeps = 2

(***************************************************************************)
(* The order of the two stages in a run (Spec)                             *)
(***************************************************************************)
CrawlPcs == {"fetch_get", "crawl_parse", "dl_start", "dl_get", "dl_write",
             "dl_except", "crawl_next"}

\* C15: in a run whose environment check passed, convert_all is not started
\* before crawl has returned or raised, it is started whatever crawl
\* returned, it has returned or raised when the run ends, and it has
\* converted every staged CSV file once and no file twice -- also the files
\* of earlier runs when the crawl downloaded nothing; a run whose
\* environment check did not pass converts nothing.
C15_ConversionOnce ==
    /\ [](/\ pc \in CrawlPcs \cup {"exec_crawl", "crawl_returned", "exec_convert"} =>
               cv = IdleCv /\ log.conv = <<>>
          /\ pc \in {"exec_convert", "cv_list", "cv_file"} =>
               stats.env = "passed" /\ cr.ret.kind \in {"returned", "raised"}
          /\ (pc = "done" /\ stats.env = "passed") =>
               /\ cv.ret.kind \in {"returned", "raised"}
               /\ cv.ret.kind = "returned" =>
                     \A n \in csvNames(origin) :
                        Cardinality({i \in 1..Len(log.conv) : log.conv[i].file = n}) = 1
          /\ (pc = "done" /\ stats.env # "passed") => cv = IdleCv /\ log.conv = <<>>
          /\ \A n \in DOMAIN origin :
                Cardinality({i \in 1..Len(log.conv) : log.conv[i].file = n}) <= 1)
    /\ [][pc = "crawl_returned" => pc' = "exec_convert"]_vars
    /\ [][pc' = "cv_list" => (pc = "exec_convert" /\ cv.ret.kind = "none")]_vars

\* the crawl downloaded nothing (the fetch failed or raised, or nothing was
\* on the page) and a file staged by an earlier run was converted
C15_Witness ==
    /\ pc = "done"
    /\ stats.env = "passed"
    /\ stats.crawl_success_count = 0
    /\ log.calls = <<>>
    /\ cv.ret.kind = "returned"
    /\ cv.ret.success > 0
    /\ \E i \in 1..Len(log.conv) : log.conv[i].ret

(***************************************************************************)
(* The order of the directory listing (SpecConvert)                        *)
(***************************************************************************)
RECURSIVE convertInOrder(_, _, _)
\* the output directory after converting the files in the order given
convertInOrder(files, dirO, dirD) ==
    IF files = <<>> THEN dirD
    ELSE convertInOrder(Tail(files), dirO, convert_csv_to_json(Head(files), dirO, dirD).docs)

\* C16 as claimed: when convert_all has returned, the output directory is
\* the one every order of the listing leads to (a conversion replaces its
\* output file whole, so converting the staged files again, in any order,
\* gives the output files and contents of that order), and the output file
\* of every converted source holds the records of that source.
C16_AsClaimed ==
    (pc = "done" /\ cv.ret.kind = "returned") =>
        /\ \A o \in Orderings(csvNames(origin)) : convertInOrder(o, origin, docs) = docs
        /\ \A i \in 1..Len(log.conv) :
              log.conv[i].ret =>
                 docs[generate_json_filename(log.conv[i].file)] =
                    convertRows(read_csv_file(origin[log.conv[i].file]).rows, <<>>)

(***************************************************************************)
(* SpecYear: extract_roc_year_from_filename on names of up to MaxYearLen   *)
(* characters: digits, the year marker and a letter                        *)
(***************************************************************************)
MaxYearLen == 5
YearAlphabet == {"0", "1", "4", "nian", "a"}

InitYear ==
    /\ PipelineIdle
    /\ pure \in
         {[fn |-> "extract_roc_year_from_filename", arg |-> n, done |-> FALSE, res |-> 0] :
            n \in SeqsUpTo(YearAlphabet, MaxYearLen)}

ExtractRocYear ==
    /\ pure.fn = "extract_roc_year_from_filename"
    /\ ~pure.done
    /\ pure' = [pure EXCEPT !.done = TRUE,
                            !.res = extract_roc_year_from_filename(pure.arg)]
    /\ UNCHANGED pipeline

NextYear == ExtractRocYear

SpecYear == InitYear /\ [][NextYear]_vars

\* where three digits are immediately followed by the year marker
YearTokens(name) ==
    {i \in 1..(Len(name) - 3) :
        (\A k \in 0..2 : name[i + k] \in Digits) /\ name[i + 3] = "nian"}

\* the tokens that are a whole run of digits: no digit comes before them
ExactYearTokens(name) ==
    {i \in YearTokens(name) : i = 1 \/ name[i - 1] \notin Digits}

YearValue(name, i) ==
    100 * digitVal(name[i]) + 10 * digitVal(name[i + 1]) + digitVal(name[i + 2])

\* C17 as claimed: the result is the value of a run of exactly three digits
\* immediately followed by the marker, and 0 when the name holds no such run.
C17_AsClaimed ==
    (pure.fn = "extract_roc_year_from_filename" /\ pure.done) =>
        IF ExactYearTokens(pure.arg) = {} THEN pure.res = 0
        ELSE \E i \in ExactYearTokens(pure.arg) : pure.res = YearValue(pure.arg, i)

\* C17 amended: the result is the value of the leftmost three digits that
\* are immediately followed by the marker, whether or not more digits come
\* before them, and 0 when no three digits are immediately followed by the
\* marker; every name has a result, an integer from 0 to 999.
C17_ExtractYear ==
    (pure.fn = "extract_roc_year_from_filename" /\ pure.done) =>
        LET tokens == YearTokens(pure.arg)
        IN /\ pure.res \in 0..999
           /\ tokens = {} => pure.res = 0
           /\ tokens # {} =>
                 \E i \in tokens :
                    /\ \A j \in tokens : i <= j
                    /\ pure.res = YearValue(pure.arg, i)

\* a name with four digits before the marker gave the value of the last
\* three
C17_Witness ==
    /\ pure.fn = "extract_roc_year_from_filename"
    /\ pure.done
    /\ pure.arg = <<"1", "1", "1", "4", "nian">>
    /\ pure.res = 114

====
